---- MODULE Spec2Model ----
(***************************************************************************)
(* ghtrack (src/main.py): a concurrent, paginated fetch-and-merge          *)
(* pipeline.  main() validates the credentials and the search quota, then  *)
(* opens a trio nursery with four search walkers; every walker pages       *)
(* through one search query and starts one detail-fetch task per item in   *)
(* the same nursery; every task appends at most one record to the shared   *)
(* list all_results; after the nursery has joined, main() partitions the   *)
(* list into two maps and generate_report() builds the url -> display      *)
(* record index and prints.                                                *)
(*                                                                         *)
(* One step of the model is one run of a task between two suspension       *)
(* points (an await of client.get, the start of a task, the exit of an     *)
(* async-with block), as trio schedules them on its single thread.         *)
(***************************************************************************)
EXTENDS Integers, Sequences, FiniteSets, Bags, TLC

(***************************************************************************)
(* Bounds of the model (the remote service's data, not the program's).     *)
(***************************************************************************)
\* search items the service holds for the four queries together: in the runs
\* over every kind of item, and in the runs where two tasks meet
OneItem == 1
MaxItems == 2
\* items on one search page
MaxPerPage == 2
\* non-empty detail pages (commits, comments, review comments) the service
\* serves in one run
MaxDetail == 2
\* entries on one detail page
MaxPerDetailPage == 1
\* items the service holds for the one query of the deep-pagination runs
DeepHits == 11
\* requests the service fails (transport error, non-200 status, unparsable
\* body) in one run of the bulk phase
MaxFaults == 1

(***************************************************************************)
(* Program constants.                                                      *)
(***************************************************************************)
\* range(1, 11): the last page a walker requests
LastPage_OneMore == 10 + 1
LastPage == 10
\* if search_remaining < 15: sys.exit(1)
MinSearchRemaining == 15
\* the recency window main() passes to every walker
Days == 7
\* comment['body'][:100]
BodyLimit == 100
SecondsPerDay == 86400
StatusOK == 200
StatusUnauthorized == 401

\* The four walkers main() starts, by the functions they run.
Walks == {"get_pr_activity", "fetch_pr_comments", "fetch_issue_comments", "fetch_review_comments"}

\* fetch_comments_for_item's parameters as each walker's fetch_and_store passes them
is_issue(w) == w = "fetch_issue_comments"
fetch_review_comments_flag(w) == w \in {"fetch_pr_comments", "fetch_review_comments"}

(***************************************************************************)
(* The remote service's data.                                              *)
(***************************************************************************)
\* the tracked user, another user, and a null author/user object
username == "user"
Logins == {"user", "other", "null"}

\* The clock reading datetime.now() returns, in seconds; one reading serves a run.
Now == Days * SecondsPerDay

\* timedelta(days=days) before now
Cutoff(now, days) == now - days * SecondsPerDay

\* entry dates: one second older than the boundary, and the boundary itself
Dates == {Cutoff(Now, Days) - 1, Cutoff(Now, Days)}

\* a raw commit / comment / review comment as the service returns it: by the
\* tracked user at either date, by another user, by a null user
\* (a body is held by its length: its characters play no part; the bodies are
\* the longest that is stored whole and the shortest that is cut)
Bodies == {BodyLimit, BodyLimit + 1}
Qualifying == [login |-> username, date |-> Cutoff(Now, Days), body |-> BodyLimit]
RawEntries ==
    [login : {username}, date : {Cutoff(Now, Days)}, body : Bodies]
    \cup [login : {username}, date : Dates, body : {BodyLimit}]
    \cup [login : Logins \ {username}, date : {Cutoff(Now, Days)}, body : {BodyLimit}]

\* the fields of a search item a detail fetch reads; `missing` names a field
\* the item lacks ("none": the item is complete)
MissingFields == {"none", "repository_url", "number", "comments_url", "title"}
MergedItem == [id |-> 1, state |-> "closed", merged_at |-> TRUE, missing |-> "none"]
Items ==
    {MergedItem,
     [id |-> 1, state |-> "closed", merged_at |-> FALSE, missing |-> "none"],
     [id |-> 2, state |-> "open", merged_at |-> FALSE, missing |-> "none"],
     [id |-> 2, state |-> "open", merged_at |-> TRUE, missing |-> "none"]}
    \cup {[MergedItem EXCEPT !.missing = f] : f \in MissingFields \ {"none"}}

\* sequences over S of length lo..hi
SeqsOf(S, lo, hi) == UNION {[1 .. n -> S] : n \in lo .. hi}

\* [f(s[1]), ..., f(s[n])]
MapSeq(f(_), s) == [i \in DOMAIN s |-> f(s[i])]

(***************************************************************************)
(* Python dicts: the values by key, and the keys in insertion order (the   *)
(* order .values() iterates in).  Two dicts are equal when their values    *)
(* are, whatever the insertion order.                                      *)
(***************************************************************************)
EmptyDict == [order |-> <<>>, val |-> <<>>]
DictHas(d, k) == k \in DOMAIN d.val
\* an assignment that keeps the value a key already has
DictSet_KeepFirst(d, k, v) ==
    IF DictHas(d, k) THEN d ELSE [order |-> Append(d.order, k), val |-> (k :> v) @@ d.val]

\* d[k] = v
DictSet(d, k, v) ==
    [order |-> IF DictHas(d, k) THEN d.order ELSE Append(d.order, k),
     val |-> (k :> v) @@ d.val]
\* list(d.values())
DictValues(d) == [i \in DOMAIN d.order |-> d.val[d.order[i]]]

(***************************************************************************)
(* The detail fetchers' filters and records.                               *)
(***************************************************************************)
\* a filter that drops the entry dated exactly at the boundary
Recent_Strict(date, now, days) == date > Cutoff(now, days)

\* commit_date >= datetime.now(tz) - timedelta(days=days)
Recent(date, now, days) == date >= Cutoff(now, days)

\* the commit a task keeps: {'sha', 'date', 'message'}
StoredEntry(e) == [date |-> e.date]

\* a cut that adds the marker from BodyLimit characters on
Truncate_FromLimit(n) ==
    [chars |-> IF n < BodyLimit THEN n ELSE BodyLimit, ellipsis |-> n >= BodyLimit]

\* comment['body'][:100] + ('...' if len(comment['body']) > 100 else ''), for
\* a body of n characters: the number of its leading characters that are
\* kept, and whether the marker follows them
Truncate(n) ==
    [chars |-> IF n < BodyLimit THEN n ELSE BodyLimit, ellipsis |-> n > BodyLimit]

\* the comment a task keeps: {'date', 'body'}
StoredComment(e) == [date |-> e.date, body |-> Truncate(e.body)]

\* fetch_commits_for_pr, the loop over commits: a commit with a null author is
\* skipped (commit.get('author') is falsy)
user_commits(commits, now, days) ==
    MapSeq(StoredEntry,
           SelectSeq(commits, LAMBDA c : c.login # "null" /\ c.login = username
                                         /\ Recent(c.date, now, days)))

\* fetch_comments_for_item, both loops: comment['user']['login'] raises on a
\* null user
RaisesOnUser(comments) == \E i \in DOMAIN comments : comments[i].login = "null"

\* the entries the loop has appended when it ends or raises: the qualifying
\* ones before the first null user
BeforeRaise(comments) ==
    IF RaisesOnUser(comments)
    THEN SubSeq(comments, 1,
                (CHOOSE i \in DOMAIN comments :
                    /\ comments[i].login = "null"
                    /\ \A j \in 1 .. i - 1 : comments[j].login # "null") - 1)
    ELSE comments

user_comments(comments, now, days) ==
    MapSeq(StoredComment,
           SelectSeq(BeforeRaise(comments),
                     LAMBDA c : c.login = username /\ Recent(c.date, now, days)))

\* state = pr['state']; 'merged' if closed and pull_request.merged_at
CommitState(pr) ==
    IF pr.state = "closed" /\ pr.merged_at THEN "merged" ELSE pr.state

\* the merge rule without its `not is_issue`
CommentState_IgnoresIssue(item, issue) ==
    IF item.state = "closed" /\ item.merged_at THEN "merged" ELSE item.state

CommentState(item, issue) ==
    IF ~issue /\ item.state = "closed" /\ item.merged_at THEN "merged" ELSE item.state

\* f"{repo}#{number}", and the item's html_url: one of each per identity
KeyOf(item) == item.id
UrlOf(item) == item.id

\* The record fetch_commits_for_pr returns.  An authored record has no
\* 'review_comments' and no 'is_issue' key; every reader defaults them
\* (item.get('review_comments', [])), so they are held as <<>> and FALSE.
CommitRecord(pr, ucommits) ==
    [key |-> KeyOf(pr),
     data |-> [url |-> UrlOf(pr), state |-> CommitState(pr), is_author |-> TRUE,
               is_issue |-> FALSE, commits |-> ucommits, comments |-> <<>>,
               review_comments |-> <<>>]]

\* The record fetch_comments_for_item returns (it has no 'commits' key; held
\* as <<>>).
CommentRecord(item, issue, ucomments, ureview) ==
    [key |-> KeyOf(item),
     data |-> [url |-> UrlOf(item), state |-> CommentState(item, issue),
               is_author |-> FALSE, is_issue |-> issue, commits |-> <<>>,
               comments |-> ucomments, review_comments |-> ureview]]

(***************************************************************************)
(* The merger: main()'s partition loop and generate_report().              *)
(***************************************************************************)
\* for result in all_results: pr_result[key] = data / comment_result[key] = data
RECURSIVE PartitionLoop(_, _, _)
PartitionLoop(results, i, maps) ==
    IF i > Len(results) THEN maps
    ELSE LET result == results[i]
             data == result.data
         IN  IF data.is_author
             THEN PartitionLoop(results, i + 1,
                     [maps EXCEPT !.pr_result = DictSet(@, result.key, data)])
             ELSE PartitionLoop(results, i + 1,
                     [maps EXCEPT !.comment_result = DictSet(@, result.key, data)])

Partition(results) ==
    PartitionLoop(results, 1, [pr_result |-> EmptyDict, comment_result |-> EmptyDict])

\* generate_report, first loop: every authored record seeds its URL's entry
RECURSIVE SeedLoop(_, _, _)
SeedLoop(prs, i, info) ==
    IF i > Len(prs) THEN info
    ELSE SeedLoop(prs, i + 1,
            DictSet(info, prs[i].url,
                    [state |-> prs[i].state, commits |-> Len(prs[i].commits),
                     comments |-> 0, review_comments |-> 0]))

\* an update that replaces the entry as the else branch builds it
UpdateEntry_Overwrite(entry, item) ==
    [state |-> item.state, commits |-> 0, comments |-> Len(item.comments),
     review_comments |-> Len(item.review_comments)]

\* url_to_info[url]['comments'] = ...; url_to_info[url]['review_comments'] = ...
UpdateEntry(entry, item) ==
    [entry EXCEPT !.comments = Len(item.comments),
                  !.review_comments = Len(item.review_comments)]

\* url_to_info[url] = {...} for an item with no authored record
NewEntry(item) ==
    [state |-> item.state, commits |-> 0, comments |-> Len(item.comments),
     review_comments |-> Len(item.review_comments)]

\* generate_report, second loop
RECURSIVE CommentLoop(_, _, _)
CommentLoop(items, i, info) ==
    IF i > Len(items) THEN info
    ELSE LET item == items[i]
         IN  CommentLoop(items, i + 1,
                DictSet(info, item.url,
                        IF DictHas(info, item.url)
                        THEN UpdateEntry(info.val[item.url], item)
                        ELSE NewEntry(item)))

url_to_info_of(pr_activity, comment_activity) ==
    CommentLoop(DictValues(comment_activity), 1,
                SeedLoop(DictValues(pr_activity), 1, EmptyDict))

\* date.strftime('%Y-%m-%d'): the calendar day of a date
DayOf(date) == date \div SecondsPerDay

\* activity_by_date: day -> set of URLs, as the set of <<day, url>> pairs
activity_by_date_of(pr_activity, comment_activity) ==
    LET recs == {pr_activity.val[k] : k \in DOMAIN pr_activity.val}
                \cup {comment_activity.val[k] : k \in DOMAIN comment_activity.val}
        datesOf(r) == {r.commits[i].date : i \in DOMAIN r.commits}
                      \cup {r.comments[i].date : i \in DOMAIN r.comments}
                      \cup {r.review_comments[i].date : i \in DOMAIN r.review_comments}
    IN  UNION {{<<DayOf(d), r.url>> : d \in datesOf(r)} : r \in recs}

\* sorted(S) and sorted(S, reverse=True) of a set of integers
RECURSIVE SortAsc(_)
SortAsc(S) ==
    IF S = {} THEN <<>>
    ELSE LET m == CHOOSE x \in S : \A y \in S : x <= y
         IN  <<m>> \o SortAsc(S \ {m})
Reverse(s) == [i \in DOMAIN s |-> s[Len(s) + 1 - i]]

FallbackLine ==
    [kind |-> "No activity found", day |-> 0, url |-> 0, label |-> "",
     commits |-> 0, comments |-> 0, review_comments |-> 0]

\* "- {url} - {title} {state_label} {activity_summary}"
ItemLine(day, url, info) ==
    [kind |-> "item", day |-> day, url |-> url,
     label |-> IF info.state \in {"closed", "merged"} THEN info.state ELSE "",
     commits |-> info.commits, comments |-> info.comments,
     review_comments |-> info.review_comments]

HeadingLine(day) ==
    [kind |-> "heading", day |-> day, url |-> 0, label |-> "",
     commits |-> 0, comments |-> 0, review_comments |-> 0]

RECURSIVE Flatten(_)
Flatten(ss) == IF ss = <<>> THEN <<>> ELSE Head(ss) \o Flatten(Tail(ss))

\* a report that prints nothing when there is no activity
generate_report_NoFallback(pr_activity, comment_activity) ==
    LET info == url_to_info_of(pr_activity, comment_activity)
        byDate == activity_by_date_of(pr_activity, comment_activity)
        days == Reverse(SortAsc({p[1] : p \in byDate}))
        block(day) ==
            <<HeadingLine(day)>>
            \o MapSeq(LAMBDA u : ItemLine(day, u, info.val[u]),
                      SortAsc({p[2] : p \in {q \in byDate : q[1] = day}}))
    IN  Flatten(MapSeq(block, days))

\* generate_report: what it prints on stdout
generate_report(pr_activity, comment_activity) ==
    LET info == url_to_info_of(pr_activity, comment_activity)
        byDate == activity_by_date_of(pr_activity, comment_activity)
        days == Reverse(SortAsc({p[1] : p \in byDate}))
        block(day) ==
            <<HeadingLine(day)>>
            \o MapSeq(LAMBDA u : ItemLine(day, u, info.val[u]),
                      SortAsc({p[2] : p \in {q \in byDate : q[1] = day}}))
    IN  IF byDate = {} THEN <<FallbackLine>>
        ELSE Flatten(MapSeq(block, days))

(***************************************************************************)
(* State.                                                                  *)
(***************************************************************************)
VARIABLES
    pc,               \* where main() is: "start", "auth", "quota", "bulk",
                      \* "partitioned", "done", "exit"
    exit_code,        \* the process's exit code; -1 while it runs
    creds,            \* whether GITHUB_TOKEN and GITHUB_USERNAME are set
    auth,             \* the identity request's outcome
    rate,             \* the quota request's outcome
    walk,             \* each walker: status, page, why it stopped
    log,              \* each walker's search requests, in order, with outcomes
    spawned,          \* each walker's number of nursery.start_soon calls
    search_counter,   \* search_counter['count']
    tasks,            \* the bag of detail-fetch tasks in the nursery
    crashed,          \* an exception reached the nursery: its scope is cancelled
    all_results,      \* the shared result list
    origin,           \* for each element of all_results: the walk and item of its task
    ended,            \* the detail fetch that returned last: the task as its last
                      \* response found it, that response, and whether a record
                      \* was appended
    pr_result,        \* main()'s two maps
    comment_result,
    url_to_info,      \* generate_report's index
    stdout,           \* the lines printed on stdout
    service           \* the remote service: the items each query can still
                      \* return (hits), of which kinds (catalogue), how many to
                      \* a page (page_size); the kinds of entries behind its
                      \* detail endpoints (entries); the non-empty detail pages
                      \* (detail_left) and the failed requests (faults_left) it
                      \* can still answer with

vars ==
    <<pc, exit_code, creds, auth, rate, walk, log, spawned, search_counter,
      tasks, crashed, all_results, origin, ended, pr_result,
      comment_result, url_to_info, stdout, service>>

mainVars == <<pc, exit_code, creds, auth, rate>>
walkVars == <<walk, log, spawned, search_counter>>
taskVars == <<tasks, all_results, origin, ended>>
mergeVars == <<pr_result, comment_result, url_to_info, stdout>>

NoResponse == [kind |-> "none", status |-> 0, search_remaining |-> 0]

\* no detail fetch has returned yet
NoFetch == [recorded |-> FALSE]

\* what the identity and the quota request can come back with: an
\* httpx.HTTPError, or a response (the quota body is read on a 200 only); a
\* quota 200 can carry a body that is not JSON or lacks ['resources']['search']
AuthResponses ==
    {[kind |-> "transport", status |-> 0, search_remaining |-> 0]}
    \cup [kind : {"response"}, status : {StatusOK, StatusUnauthorized, 500},
          search_remaining : {0}]
RateResponses ==
    {[kind |-> "transport", status |-> 0, search_remaining |-> 0]}
    \cup [kind : {"response"}, status : {StatusOK},
          search_remaining : {MinSearchRemaining - 1, MinSearchRemaining}]
    \cup [kind : {"response"}, status : {500}, search_remaining : {0}]
    \cup {[kind |-> "malformed", status |-> StatusOK, search_remaining |-> 0]}

RECURSIVE SumOver(_, _)
SumOver(f, S) ==
    IF S = {} THEN 0
    ELSE LET x == CHOOSE y \in S : TRUE IN f[x] + SumOver(f, S \ {x})

\* the ways n items spread over the four queries
Spread(n) == {h \in [Walks -> 0 .. n] : SumOver(h, Walks) = n}

\* The service at the start of a run: one item of any kind, with entries of
\* any kind behind it and MaxFaults failing requests; or MaxItems items,
\* complete or lacking a field, with qualifying entries behind them and no
\* failing request; or DeepHits complete items for one query, one to a page,
\* with nothing behind them and no failing request.
OneService ==
    [hits : Spread(OneItem), catalogue : {Items}, entries : {RawEntries},
     page_size : {MaxPerPage}, detail_left : {MaxDetail}, faults_left : {MaxFaults}]
PairService ==
    [hits : Spread(MaxItems),
     catalogue : {{MergedItem, [MergedItem EXCEPT !.missing = "repository_url"]}},
     entries : {{Qualifying}}, page_size : {MaxPerPage},
     detail_left : {MaxDetail}, faults_left : {0}]
DeepService ==
    [hits : {[w \in Walks |-> IF w = v THEN DeepHits ELSE 0] : v \in Walks},
     catalogue : {{MergedItem}}, entries : {{Qualifying}}, page_size : {1},
     detail_left : {0}, faults_left : {0}]

Init ==
    /\ pc = "start"
    /\ exit_code = -1
    /\ creds = [token |-> FALSE, username |-> FALSE]
    /\ auth = NoResponse
    /\ rate = NoResponse
    /\ walk = [w \in Walks |-> [status |-> "unstarted", page |-> 0, stop |-> "none"]]
    /\ log = [w \in Walks |-> <<>>]
    /\ spawned = [w \in Walks |-> 0]
    /\ search_counter = 0
    /\ tasks = EmptyBag
    /\ crashed = FALSE
    /\ all_results = <<>>
    /\ origin = <<>>
    /\ ended = NoFetch
    /\ pr_result = EmptyDict
    /\ comment_result = EmptyDict
    /\ url_to_info = EmptyDict
    /\ stdout = <<>>
    /\ service \in OneService \cup PairService \cup DeepService

(***************************************************************************)
(* main(): pre-flight.                                                     *)
(***************************************************************************)
\* a search request a walker has issued and is waiting for
PendingRequest(page) == [page |-> page, kind |-> "pending", n |-> 0]

\* sys.exit(1)
Exit1 == pc' = "exit" /\ exit_code' = 1

\* lines 395-415: the two environment variables, then the identity request
CheckEnv ==
    /\ pc = "start"
    /\ \E token \in BOOLEAN, user \in BOOLEAN :
        /\ creds' = [token |-> token, username |-> user]
        /\ IF ~token \/ ~user THEN Exit1
           ELSE pc' = "auth" /\ exit_code' = exit_code
    /\ UNCHANGED <<auth, rate, walkVars, taskVars, crashed, mergeVars, service>>

\* lines 415-427: the identity response; then the quota request
AuthResponse ==
    /\ pc = "auth"
    /\ \E r \in AuthResponses :
        /\ auth' = r
        /\ IF r.kind = "transport" THEN Exit1
           ELSE IF r.status = StatusUnauthorized THEN Exit1
           ELSE IF r.status # StatusOK THEN Exit1
           ELSE pc' = "quota" /\ exit_code' = exit_code
    /\ UNCHANGED <<creds, rate, walkVars, taskVars, crashed, mergeVars, service>>

\* a guard that also refuses a quota response whose status is not 200
QuotaTooLow_OrNot200(r) ==
    r.status # StatusOK \/ r.search_remaining < MinSearchRemaining

\* if search_remaining < 15 (read from the body of a 200 only)
QuotaTooLow_OffByOne(r) ==
    r.status = StatusOK /\ r.search_remaining < MinSearchRemaining - 1
QuotaTooLow(r) ==
    r.status = StatusOK /\ r.search_remaining < MinSearchRemaining

\* lines 427-469: the quota response; then the bulk phase opens the nursery
\* and starts the four walkers.  trio runs the four new tasks in one batch,
\* before it polls for any response: each enters its loop and awaits page 1.
RateLimitResponse ==
    /\ pc = "quota"
    /\ \E r \in RateResponses :
        /\ rate' = r
        /\ IF r.kind = "transport" THEN Exit1 /\ UNCHANGED <<walk, log>>
           ELSE IF r.kind = "malformed"
           THEN \* .json() or a subscript raises: not an httpx.HTTPError, so it
                \* leaves main() and the interpreter exits with code 1
                Exit1 /\ UNCHANGED <<walk, log>>
           ELSE IF QuotaTooLow(r)
           THEN Exit1 /\ UNCHANGED <<walk, log>>
           ELSE /\ pc' = "bulk"
                /\ exit_code' = exit_code
                /\ walk' = [w \in Walks |->
                                [status |-> "awaiting", page |-> 1, stop |-> "none"]]
                /\ log' = [w \in Walks |-> <<PendingRequest(1)>>]
    /\ UNCHANGED <<creds, auth, spawned, search_counter, service, taskVars,
                   crashed, mergeVars>>

(***************************************************************************)
(* The search walkers: get_pr_activity, fetch_pr_comments,                 *)
(* fetch_issue_comments, fetch_review_comments (the same loop four times). *)
(***************************************************************************)
Min(a, b) == IF a <= b THEN a ELSE b

\* what a search request can come back with: a raised transport error, a
\* non-200 status, a 200 whose body does not parse, or a 200 with items
SearchFaults == {"transport", "status", "malformed"}
SearchResponses(w) ==
    [kind : IF service.faults_left > 0 THEN SearchFaults ELSE {}, items : {<<>>}]
    \cup [kind : {"ok"},
          items : SeqsOf(service.catalogue, 0, Min(service.page_size, service.hits[w]))]

\* the service after it has answered walker w with r
AfterSearch(w, r) ==
    IF r.kind \in SearchFaults
    THEN [service EXCEPT !.faults_left = @ - 1]
    ELSE [service EXCEPT !.hits[w] = @ - Len(r.items)]

NewTask(w, item) ==
    [walk |-> w, item |-> item, stage |-> "start", page |-> 0, acc |-> <<>>,
     ucom |-> <<>>]

\* a loop that starts a task for the first item of the page alone
StartSoon_FirstOnly(bag, w, items) ==
    IF items = <<>> THEN bag ELSE bag (+) SetToBag({NewTask(w, Head(items))})

\* for item in items: nursery.start_soon(fetch_and_store, item)
RECURSIVE StartSoon(_, _, _)
StartSoon(bag, w, items) ==
    IF items = <<>> THEN bag
    ELSE StartSoon(bag (+) SetToBag({NewTask(w, Head(items))}), w, Tail(items))

\* the outcome of the request a walker was waiting for: how it ended, and the
\* number of items on the page
Outcome(requests, kind, n) ==
    [requests EXCEPT ![Len(requests)] = [page |-> @.page, kind |-> kind, n |-> n]]

\* the walker stops: break, or the end of range(1, 11)
Stopped(w, why) == [walk EXCEPT ![w].status = "returned", ![w].stop = why]

\* a walker whose failed request leaves the walker as an exception
WalkFailed_Raises(w, why) ==
    /\ walk' = Stopped(w, why)
    /\ crashed' = TRUE

\* the failed request is logged and the walker breaks out of its loop
WalkFailed(w, why) ==
    /\ walk' = Stopped(w, why)
    /\ UNCHANGED crashed

\* the loop's next iteration after a page of n items: page + 1 is requested,
\* unless page was the last
NextPage(w, n) ==
    IF walk[w].page < LastPage
    THEN /\ walk' = [walk EXCEPT ![w].page = @ + 1]
         /\ log' = [log EXCEPT ![w] =
                Append(Outcome(@, "ok", n), PendingRequest(walk[w].page + 1))]
    ELSE /\ walk' = Stopped(w, "cap")
         /\ log' = [log EXCEPT ![w] = Outcome(@, "ok", n)]

\* one iteration of the loop, from the response to the next await
SearchResponse(w) ==
    /\ pc = "bulk"
    /\ walk[w].status = "awaiting"
    /\ ~crashed
    /\ \E r \in SearchResponses(w) :
        /\ service' = AfterSearch(w, r)
        /\ CASE r.kind = "transport" ->
                \* client.get raised: the except clause prints and breaks
                /\ WalkFailed(w, "error")
                /\ log' = [log EXCEPT ![w] = Outcome(@, "transport", 0)]
                /\ UNCHANGED <<search_counter, spawned, tasks>>
             [] r.kind = "status" ->
                /\ search_counter' = search_counter + 1
                /\ WalkFailed(w, "status")
                /\ log' = [log EXCEPT ![w] = Outcome(@, "status", 0)]
                /\ UNCHANGED <<spawned, tasks>>
             [] r.kind = "malformed" ->
                \* response.json() raised: the except clause prints and breaks
                /\ search_counter' = search_counter + 1
                /\ WalkFailed(w, "error")
                /\ log' = [log EXCEPT ![w] = Outcome(@, "malformed", 0)]
                /\ UNCHANGED <<spawned, tasks>>
             [] r.kind = "ok" /\ r.items = <<>> ->
                /\ search_counter' = search_counter + 1
                /\ walk' = Stopped(w, "empty")
                /\ log' = [log EXCEPT ![w] = Outcome(@, "ok", 0)]
                /\ UNCHANGED <<spawned, tasks, crashed>>
             [] r.kind = "ok" /\ r.items # <<>> ->
                /\ search_counter' = search_counter + 1
                /\ tasks' = StartSoon(tasks, w, r.items)
                /\ spawned' = [spawned EXCEPT ![w] = @ + Len(r.items)]
                /\ NextPage(w, Len(r.items))
                /\ UNCHANGED crashed
    /\ UNCHANGED <<mainVars, all_results, origin, ended, mergeVars>>

\* the nursery's scope is cancelled: the pending await raises Cancelled,
\* which no except clause of the walker catches
WalkerCancelled(w) ==
    /\ pc = "bulk"
    /\ crashed
    /\ walk[w].status = "awaiting"
    /\ walk' = [walk EXCEPT ![w].status = "cancelled"]
    /\ UNCHANGED <<mainVars, log, spawned, search_counter, service, taskVars,
                   crashed, mergeVars>>

(***************************************************************************)
(* The detail-fetch tasks: fetch_and_store, fetch_commits_for_pr,          *)
(* fetch_comments_for_item.                                                *)
(***************************************************************************)
\* the item fields a task reads outside every try block:
\* get_pr_activity.fetch_and_store reads pr['repository_url'] and pr['number']
\* (lines 95-96); fetch_comments_for_item reads item['repository_url'],
\* item['number'] and item['comments_url'] before its try (lines 110-112)
UnguardedFields(w) ==
    IF w = "get_pr_activity" THEN {"repository_url", "number"}
    ELSE {"repository_url", "number", "comments_url"}

\* the item fields read inside the try block, once a record is being built
\* (pr['title'], item['title'])
GuardedFields == {"title"}

\* what a detail request can come back with: a raised transport or parse
\* error, a non-200 status, or a 200 with a page of entries
DetailFaults == {"raise", "status"}
DetailResponses ==
    [kind : IF service.faults_left > 0 THEN DetailFaults ELSE {}, entries : {<<>>}]
    \cup [kind : {"ok"},
          entries : SeqsOf(service.entries, 0,
                           IF service.detail_left > 0 THEN MaxPerDetailPage ELSE 0)]

\* the service after it has answered a detail request with r
AfterDetail(r) ==
    IF r.kind \in DetailFaults THEN [service EXCEPT !.faults_left = @ - 1]
    ELSE IF r.entries # <<>> THEN [service EXCEPT !.detail_left = @ - 1]
    ELSE service

Remove(t) == tasks (-) SetToBag({t})
Replace(t, u) == (tasks (-) SetToBag({t})) (+) SetToBag({u})

\* the task ends without a record
NoRecord(t) ==
    /\ tasks' = Remove(t)
    /\ UNCHANGED <<all_results, origin>>

\* a store that inserts the record at the front of the list
Store_AtFront(t, result) ==
    /\ tasks' = Remove(t)
    /\ all_results' = <<result>> \o all_results
    /\ origin' = <<[walk |-> t.walk, item |-> t.item]>> \o origin

\* if result: all_results.append(result)
Store(t, result) ==
    /\ tasks' = Remove(t)
    /\ all_results' = Append(all_results, result)
    /\ origin' = Append(origin, [walk |-> t.walk, item |-> t.item])

\* the task's first run, up to its first await
TaskStart(t) ==
    /\ pc = "bulk"
    /\ t \in BagToSet(tasks)
    /\ t.stage = "start"
    /\ IF t.item.missing \in UnguardedFields(t.walk)
       THEN \* KeyError outside any try: it leaves the task and reaches the nursery
            /\ crashed' = TRUE
            /\ tasks' = Remove(t)
       ELSE IF crashed
       THEN \* the first await raises Cancelled
            /\ tasks' = Remove(t)
            /\ UNCHANGED crashed
       ELSE /\ tasks' = Replace(t, [t EXCEPT
                            !.stage = IF t.walk = "get_pr_activity" THEN "commits"
                                      ELSE "comments",
                            !.page = 1])
            /\ UNCHANGED crashed
    /\ UNCHANGED <<mainVars, walkVars, all_results, origin, ended, service, mergeVars>>

\* the page is extended to the list and the next page is requested
MorePages(t, entries) ==
    /\ tasks' = Replace(t, [t EXCEPT !.acc = @ \o entries, !.page = @ + 1])
    /\ UNCHANGED <<all_results, origin>>

\* fetch_commits_for_pr after its pagination loop (lines 33-68)
CommitsDone(t) ==
    LET ucommits == user_commits(t.acc, Now, Days)
    IN  IF ucommits # <<>> /\ t.item.missing \notin GuardedFields
        THEN Store(t, CommitRecord(t.item, ucommits))
        ELSE NoRecord(t)

\* a task that emits its record whatever the two lists hold
CommentsDone_Always(t, ucomments, ureview) ==
    IF t.item.missing \notin GuardedFields
    THEN Store(t, CommentRecord(t.item, is_issue(t.walk), ucomments, ureview))
    ELSE NoRecord(t)

\* fetch_comments_for_item from `if user_comments or user_review_comments`
\* (lines 183-209)
CommentsDone(t, ucomments, ureview) ==
    IF (ucomments # <<>> \/ ureview # <<>>) /\ t.item.missing \notin GuardedFields
    THEN Store(t, CommentRecord(t.item, is_issue(t.walk), ucomments, ureview))
    ELSE NoRecord(t)

\* fetch_comments_for_item after the regular comments' loop (lines 134-158)
RegularDone(t) ==
    IF RaisesOnUser(t.acc)
    THEN NoRecord(t)
    ELSE LET ucomments == user_comments(t.acc, Now, Days)
         IN  IF ~is_issue(t.walk) /\ fetch_review_comments_flag(t.walk)
             THEN /\ tasks' = Replace(t, [t EXCEPT !.stage = "review", !.page = 1,
                                                    !.acc = <<>>, !.ucom = ucomments])
                  /\ UNCHANGED <<all_results, origin>>
             ELSE CommentsDone(t, ucomments, <<>>)

\* a status test that returns None on whatever page the status is not 200
FirstPageFailed_AnyPage(t, r) == r.kind = "status"

\* if response.status_code != 200: if page == 1: return None
FirstPageFailed(t, r) == r.kind = "status" /\ t.page = 1

\* a review-comments failure that fails the task
ReviewFailed_NoRecord(t) == NoRecord(t)

\* the inner except clause (lines 180-181): the error is printed,
\* user_review_comments is still empty, and the task goes on to its record
ReviewFailed(t) == CommentsDone(t, t.ucom, <<>>)

\* what a task does with the response r to its pending request
DetailStep(t, r) ==
    CASE t.stage = "commits" ->
            IF r.kind = "raise" \/ FirstPageFailed(t, r)
            THEN NoRecord(t)
            ELSE IF r.kind = "status" \/ r.entries = <<>>
            THEN CommitsDone(t)
            ELSE MorePages(t, r.entries)
      [] t.stage = "comments" ->
            IF r.kind = "raise" \/ FirstPageFailed(t, r)
            THEN NoRecord(t)
            ELSE IF r.kind = "status" \/ r.entries = <<>>
            THEN RegularDone(t)
            ELSE MorePages(t, r.entries)
      [] t.stage = "review" ->
            IF r.kind = "raise"
            THEN ReviewFailed(t)
            ELSE IF r.kind = "status" \/ r.entries = <<>>
            THEN CommentsDone(t, t.ucom, user_comments(t.acc, Now, Days))
            ELSE MorePages(t, r.entries)

\* one iteration of a pagination loop of a task, from the response to the next
\* await or to the task's end
DetailResponse(t) ==
    /\ pc = "bulk"
    /\ t \in BagToSet(tasks)
    /\ t.stage \in {"commits", "comments", "review"}
    /\ ~crashed
    /\ \E r \in DetailResponses :
        /\ service' = AfterDetail(r)
        /\ DetailStep(t, r)
        /\ ended' = IF tasks' = Remove(t)
                    THEN [task |-> t, response |-> r,
                          recorded |-> all_results' # all_results]
                    ELSE ended
    /\ UNCHANGED <<mainVars, walkVars, crashed, mergeVars>>

\* the nursery's scope is cancelled: the task's pending await raises Cancelled
TaskCancelled(t) ==
    /\ pc = "bulk"
    /\ crashed
    /\ t \in BagToSet(tasks)
    /\ t.stage # "start"
    /\ tasks' = Remove(t)
    /\ UNCHANGED <<mainVars, walkVars, all_results, origin, ended,
                   service, crashed, mergeVars>>

(***************************************************************************)
(* main(): the join, the partition and the report.                         *)
(***************************************************************************)
WalkerFinished(w) == walk[w].status \in {"returned", "cancelled"}

\* a join that waits for the walkers alone
Joined_WalkersOnly == \A w \in Walks : WalkerFinished(w)

\* `async with trio.open_nursery()` is left: every child has finished
Joined == (\A w \in Walks : WalkerFinished(w)) /\ tasks = EmptyBag

\* lines 464-479 and 488-490: the nursery block ends; it re-raises what a
\* child raised (caught by `except Exception`: exit 1), else the loop
\* partitions all_results
NurseryExit ==
    /\ pc = "bulk"
    /\ Joined
    /\ IF crashed
       THEN Exit1 /\ UNCHANGED <<pr_result, comment_result>>
       ELSE /\ pc' = "partitioned"
            /\ exit_code' = exit_code
            /\ pr_result' = Partition(all_results).pr_result
            /\ comment_result' = Partition(all_results).comment_result
    /\ UNCHANGED <<creds, auth, rate, walkVars, taskVars, crashed, url_to_info, stdout,
                   service>>

\* lines 481-484: after the client is closed, the counter is printed on stderr
\* and generate_report prints the digest; main() returns
Report ==
    /\ pc = "partitioned"
    /\ url_to_info' = url_to_info_of(pr_result, comment_result)
    /\ stdout' = generate_report(pr_result, comment_result)
    /\ pc' = "done"
    /\ exit_code' = 0
    /\ UNCHANGED <<creds, auth, rate, walkVars, taskVars, crashed, pr_result,
                   comment_result, service>>

Next ==
    \/ CheckEnv
    \/ AuthResponse
    \/ RateLimitResponse
    \/ \E w \in Walks : SearchResponse(w)
    \/ \E w \in Walks : WalkerCancelled(w)
    \/ \E t \in BagToSet(tasks) : TaskStart(t)
    \/ \E t \in BagToSet(tasks) : DetailResponse(t)
    \/ \E t \in BagToSet(tasks) : TaskCancelled(t)
    \/ NurseryExit
    \/ Report

Spec == Init /\ [][Next]_vars

(***************************************************************************)
(* Properties.                                                             *)
(***************************************************************************)
Pending(w) == walk[w].status = "awaiting"
Indexes == DOMAIN all_results
SearchRequests == SumOver([w \in Walks |-> Len(log[w])], Walks)

\* C1 (structured join): main() is past the nursery block -- partitioning
\* all_results, or reporting -- only when no walker is waiting for a page and
\* no detail-fetch task is left in the nursery.
C1_StructuredJoin ==
    (pc \in {"partitioned", "done"} \/ pr_result # EmptyDict
        \/ comment_result # EmptyDict \/ stdout # <<>>)
    => /\ \A w \in Walks : ~Pending(w) /\ walk[w].status # "unstarted"
       /\ BagCardinality(tasks) = 0

\* C1 witness: the partition has run over records of tasks that two walkers
\* started
C1_Witness ==
    /\ pc = "partitioned"
    /\ Len(all_results) = 2
    /\ \E v, w \in Walks : v # w /\ spawned[v] > 0 /\ spawned[w] > 0

\* C2 (pre-flight guard): once the identity request has come back with a
\* non-success status, or the quota endpoint has reported fewer than 15
\* remaining search requests, the process has exited with code 1, no search
\* request has been issued and no detail-fetch task (the only issuer of detail
\* requests) exists or has been started.
C2_PreflightGuard ==
    ((auth.kind = "response" /\ auth.status # 200)
        \/ (rate.kind = "response" /\ rate.status = 200 /\ rate.search_remaining < 15))
    => /\ pc = "exit" /\ exit_code = 1
       /\ \A w \in Walks : log[w] = <<>> /\ spawned[w] = 0 /\ walk[w].status = "unstarted"
       /\ search_counter = 0
       /\ tasks = EmptyBag

\* C2 witness: the quota endpoint reported 14 and the process has exited
C2_Witness ==
    /\ rate.kind = "response" /\ rate.status = 200 /\ rate.search_remaining = 14
    /\ pc = "exit"

\* C3 (per-item isolation), as claimed: no failure inside a detail-fetch task
\* reaches the nursery, so the nursery's scope is never cancelled, no walker
\* or fetcher is cancelled, and the bulk phase never ends in exit code 1.
C3_PerItemIsolation ==
    /\ ~crashed
    /\ \A w \in Walks : walk[w].status # "cancelled"
    /\ (pc = "exit" => \A w \in Walks : walk[w].status = "unstarted")

\* C4 (per-walk isolation): the step in which a walker stops on a transport
\* error, a non-success status or an unparsable body changes nothing of the
\* other walkers, of the detail-fetch tasks, of the results or of the
\* nursery's cancel scope: the others go on as they were.
C4_PerWalkIsolation ==
    [][\A w \in Walks :
        (Pending(w) /\ walk'[w].status = "returned" /\ walk'[w].stop \in {"status", "error"})
        => /\ \A v \in Walks \ {w} : walk'[v] = walk[v] /\ log'[v] = log[v]
                                     /\ spawned'[v] = spawned[v]
           /\ tasks' = tasks
           /\ all_results' = all_results
           /\ crashed' = crashed
           /\ pc' = pc]_vars

\* C4 witness: a walker has stopped on a failed request; another walker has
\* gone on to page 2 and a task it started has stored its record
C4_Witness ==
    \E w, v \in Walks :
        /\ v # w
        /\ walk[w].status = "returned" /\ walk[w].stop \in {"status", "error"}
        /\ Pending(v) /\ walk[v].page = 2
        /\ \E i \in Indexes : origin[i].walk = v
        /\ ~crashed

\* the only record of its kind (authored, or commentary) with its key
OnlyOfItsKind(i) ==
    \A j \in Indexes :
        (all_results[j].key = all_results[i].key
         /\ all_results[j].data.is_author = all_results[i].data.is_author) => j = i

\* C5 (merge, not overwrite): when the results hold one authored and one
\* commentary record for the same key and URL, the display record of that URL
\* has the authored record's commit count and the commentary record's comment
\* and review-comment counts, in whichever order the two were appended.
C5_MergeNotOverwrite ==
    pc = "done" =>
        \A i, j \in Indexes :
            LET a == all_results[i].data
                c == all_results[j].data
            IN  (/\ a.is_author /\ ~c.is_author
                 /\ all_results[i].key = all_results[j].key /\ a.url = c.url
                 /\ OnlyOfItsKind(i) /\ OnlyOfItsKind(j))
                => /\ DictHas(url_to_info, a.url)
                   /\ url_to_info.val[a.url].commits = Len(a.commits)
                   /\ url_to_info.val[a.url].comments = Len(c.comments)
                   /\ url_to_info.val[a.url].review_comments = Len(c.review_comments)

\* C5 witness: the commentary record was appended first, the authored record
\* second, both with activity, and the report has run
C5_Witness ==
    /\ pc = "done"
    /\ Len(all_results) = 2
    /\ ~all_results[1].data.is_author /\ all_results[2].data.is_author
    /\ all_results[1].key = all_results[2].key
    /\ Len(all_results[2].data.commits) > 0
    /\ Len(all_results[1].data.comments) + Len(all_results[1].data.review_comments) > 0

\* all_results in another order of appending
Permuted(p) == [i \in Indexes |-> all_results[p[i]]]

\* the three outputs of the merger for a list of records: the two maps and the
\* url -> display-record index, compared as Python compares dicts
Merged(results) ==
    LET maps == Partition(results)
    IN  <<maps.pr_result.val, maps.comment_result.val,
          url_to_info_of(maps.pr_result, maps.comment_result).val>>

\* C6 (order independence of the merger), as claimed: once the results are
\* partitioned, every other order of appending the same records would have
\* given the same authored map, commented map and display index.
C6_OrderIndependent ==
    pc \in {"partitioned", "done"} =>
        \A p \in Permutations(Indexes) : Merged(Permuted(p)) = Merged(all_results)

\* the pages a walker has requested are 1, 2, ... in order, every page before
\* the last one came back with items, and only the last can be outstanding
InOrder(requests) ==
    /\ \A i \in DOMAIN requests : requests[i].page = i
    /\ \A i \in 1 .. Len(requests) - 1 : requests[i].kind = "ok" /\ requests[i].n > 0

\* the items on the pages a walker received before page N
RECURSIVE ItemsBefore(_, _)
ItemsBefore(requests, N) ==
    IF N <= 1 THEN 0 ELSE requests[N - 1].n + ItemsBefore(requests, N - 1)

TasksOf(w) == {t \in BagToSet(tasks) : t.walk = w}

\* C7 (search pagination termination): a walker requests pages 1, 2, ... in
\* order, one at a time, and at most 10 of them; when page N comes back empty
\* the walker has returned, has started tasks for exactly the items of pages
\* 1..N-1 and has requested nothing after N; when page 10 comes back with
\* items the walker has returned without requesting page 11.
C7_PaginationTermination ==
    \A w \in Walks :
        LET requests == log[w]
            N == Len(requests)
        IN  /\ N <= 10
            /\ InOrder(requests)
            /\ walk[w].page = N
            /\ (N > 0 /\ requests[N].kind = "ok" /\ requests[N].n = 0)
               => /\ walk[w].status = "returned"
                  /\ spawned[w] = ItemsBefore(requests, N)
            /\ (N = 10 /\ requests[N].kind = "ok" /\ requests[N].n > 0)
               => /\ walk[w].status = "returned"
                  /\ spawned[w] = ItemsBefore(requests, N + 1)
            /\ \A t \in TasksOf(w) : CopiesIn(t, tasks) <= spawned[w]

\* C7 witness: a walker received ten pages with items and has returned
C7_Witness ==
    \E w \in Walks :
        /\ Len(log[w]) = 10
        /\ log[w][10].kind = "ok" /\ log[w][10].n > 0
        /\ walk[w].status = "returned"
        /\ spawned[w] = 10

\* C8 (non-empty records): every record in all_results has a qualifying
\* entry -- an authored record a commit, a commentary record a comment or a
\* review comment -- and a step that appends a record ends a task that had
\* received an entry by the tracked user inside the recency window.
NonEmpty(result) ==
    IF result.data.is_author THEN result.data.commits # <<>>
    ELSE result.data.comments # <<>> \/ result.data.review_comments # <<>>

Qualifies(e) == e.login = "user" /\ e.date >= Now - Days * SecondsPerDay

HadQualifying(t) ==
    \/ \E i \in DOMAIN t.acc : Qualifies(t.acc[i])
    \/ t.ucom # <<>>

C8_NonEmptyRecords ==
    /\ [](\A i \in Indexes : NonEmpty(all_results[i]))
    /\ [][all_results' # all_results =>
            \E t \in BagToSet(tasks) :
                /\ tasks' = tasks (-) SetToBag({t})
                /\ HadQualifying(t)
                /\ all_results' = Append(all_results, all_results'[Len(all_results')])
                /\ NonEmpty(all_results'[Len(all_results')])]_vars

\* C8 witness: an authored and a commentary record have been appended
C8_Witness ==
    /\ \E i \in Indexes : all_results[i].data.is_author
    /\ \E i \in Indexes : ~all_results[i].data.is_author

\* C9 (state derivation): a record's state is `merged` exactly when its item
\* is a pull request that is closed and has a merge timestamp; a closed pull
\* request without one is `closed`; an item that is not closed is `open`; a
\* record of the issue walk is never `merged`.
C9_StateDerivation ==
    \A i \in Indexes :
        LET state == all_results[i].data.state
            item == origin[i].item
            pull_request == origin[i].walk # "fetch_issue_comments"
        IN  /\ state = "merged"
                <=> (pull_request /\ item.state = "closed" /\ item.merged_at)
            /\ (pull_request /\ item.state = "closed" /\ ~item.merged_at)
                => state = "closed"
            /\ item.state # "closed" => state = "open"
            /\ all_results[i].data.is_issue <=> ~pull_request
            /\ all_results[i].data.is_issue => state # "merged"

\* C9 witness: the issue walk has emitted a record for a closed item that
\* carries a merge timestamp
C9_Witness ==
    \E i \in Indexes :
        /\ origin[i].walk = "fetch_issue_comments"
        /\ origin[i].item.state = "closed" /\ origin[i].item.merged_at
        /\ all_results[i].data.state = "closed"

\* every walker's first page came back empty
AllFirstPagesEmpty ==
    \A w \in Walks : Len(log[w]) >= 1 /\ log[w][1].kind = "ok" /\ log[w][1].n = 0

\* C10 (zero-activity run): when all four searches return an empty first
\* page, exactly four search requests are issued, no task is started, the
\* result list stays empty, the process never exits with code 1, and when
\* main() returns stdout is the one fallback line and the exit code is 0.
C10_ZeroActivity ==
    AllFirstPagesEmpty =>
        /\ SearchRequests = 4 /\ search_counter = 4
        /\ \A w \in Walks : spawned[w] = 0
        /\ tasks = EmptyBag
        /\ all_results = <<>>
        /\ pc \in {"bulk", "partitioned", "done"}
        /\ exit_code \in {-1, 0}
        /\ pc = "done" =>
            /\ stdout = <<[kind |-> "No activity found", day |-> 0, url |-> 0,
                           label |-> "", commits |-> 0, comments |-> 0,
                           review_comments |-> 0]>>
            /\ exit_code = 0

\* C10 witness: main() has returned from a run with four empty first pages
C10_Witness == AllFirstPagesEmpty /\ pc = "done"

\* walker w stopped on a failed request (a non-200 status or a transport
\* error) for a page after the first
StoppedAfterFirst(w) ==
    /\ Len(log[w]) > 1
    /\ log[w][Len(log[w])].kind \in {"status", "transport"}

\* record i is in the merged state: the map of its kind holds its data under
\* its key
InMerged(i) ==
    LET result == all_results[i]
        map == IF result.data.is_author THEN pr_result ELSE comment_result
    IN  DictHas(map, result.key) /\ map.val[result.key] = result.data

\* C11 (partial report on non-fatal errors), as claimed: when a walker has
\* stopped on a failed request for a page p > 1, the process does not exit
\* with code 1, and when main() returns the exit code is 0 and every record of
\* that walker's tasks is in the merged state.
C11_PartialReport ==
    \A w \in Walks :
        StoppedAfterFirst(w) =>
            /\ pc # "exit" /\ exit_code # 1
            /\ pc = "done" =>
                /\ exit_code = 0
                /\ \A i \in Indexes : origin[i].walk = w => InMerged(i)

\* the entries of a fetched list that are by the tracked user and dated at or
\* after now - days, in whole seconds
Kept(raw) ==
    SelectSeq(raw, LAMBDA e : e.login = "user" /\ e.date >= Now - Days * SecondsPerDay)

DatesOf(list) == [i \in DOMAIN list |-> list[i].date]

NoNullUser(raw) == \A i \in DOMAIN raw : raw[i].login # "null"

\* the record the last detail fetch appended
LastRecord == all_results[Len(all_results)].data

\* C12 (recency boundary): the commits, comments and review comments a task
\* stores are exactly the fetched entries by the tracked user dated at or
\* after now - days -- the entry dated now - days is kept, the entry one
\* second older is not -- in the commit filter, in the comment filter and in
\* the review-comment filter (for lists whose users are all non-null, and
\* review fetches that did not raise).
C12_RecencyBoundary ==
    /\ [](ended.recorded =>
            LET t == ended.task
            IN  /\ t.stage = "commits" =>
                    DatesOf(LastRecord.commits) = DatesOf(Kept(t.acc))
                /\ t.stage = "comments" =>
                    DatesOf(LastRecord.comments) = DatesOf(Kept(t.acc))
                /\ (t.stage = "review" /\ ended.response.kind # "raise"
                        /\ NoNullUser(t.acc)) =>
                    DatesOf(LastRecord.review_comments) = DatesOf(Kept(t.acc)))
    /\ []((ended # NoFetch /\ ~ended.recorded /\ ended.response.kind = "ok"
            /\ ended.task.item.missing = "none" /\ NoNullUser(ended.task.acc))
            => Kept(ended.task.acc) = <<>>)
    /\ [][\A t \in BagToSet(tasks), u \in BagToSet(tasks') :
            (t.stage = "comments" /\ u.stage = "review"
                /\ tasks' = (tasks (-) SetToBag({t})) (+) SetToBag({u}))
            => DatesOf(u.ucom) = DatesOf(Kept(t.acc))]_vars

\* C12 witness: a task fetched an entry by the tracked user dated now - days
\* and one dated a second earlier, and its record holds the first alone
C12_Witness ==
    /\ ended.recorded
    /\ \E i, j \in DOMAIN ended.task.acc :
        /\ ended.task.acc[i] = [login |-> "user", date |-> Now - Days * SecondsPerDay,
                                body |-> 100]
        /\ ended.task.acc[j] = [login |-> "user", date |-> Now - Days * SecondsPerDay - 1,
                                body |-> 100]
    /\ Len(LastRecord.commits) + Len(LastRecord.comments)
        + Len(LastRecord.review_comments) = 1

\* a stored body that is the original of n characters, and one that is its
\* first 100 characters followed by the ellipsis marker
Whole(n) == [chars |-> n, ellipsis |-> FALSE]
Cut == [chars |-> 100, ellipsis |-> TRUE]

\* the bodies a task is to store for a fetched list
BodiesOf(raw) ==
    [i \in DOMAIN Kept(raw) |->
        IF Kept(raw)[i].body <= 100 THEN Whole(Kept(raw)[i].body) ELSE Cut]

StoredBodies(list) == [i \in DOMAIN list |-> list[i].body]

\* C13 (body truncation): the body a task stores for a comment or a review
\* comment of n characters is the original when n <= 100 (no ellipsis at
\* exactly 100), and the first 100 characters followed by the ellipsis marker
\* when n >= 101.
C13_BodyTruncation ==
    /\ [](ended.recorded =>
            LET t == ended.task
            IN  /\ t.stage = "comments" =>
                    StoredBodies(LastRecord.comments) = BodiesOf(t.acc)
                /\ (t.stage = "review" /\ ended.response.kind # "raise"
                        /\ NoNullUser(t.acc)) =>
                    StoredBodies(LastRecord.review_comments) = BodiesOf(t.acc))
    /\ [][\A t \in BagToSet(tasks), u \in BagToSet(tasks') :
            (t.stage = "comments" /\ u.stage = "review"
                /\ tasks' = (tasks (-) SetToBag({t})) (+) SetToBag({u}))
            => StoredBodies(u.ucom) = BodiesOf(t.acc)]_vars

\* C13 witness: a task fetched a body of 100 and a body of 101 characters and
\* stored the first whole and the second cut
C13_Witness ==
    /\ ended.recorded
    /\ ended.task.stage \in {"comments", "review"}
    /\ {ended.task.acc[i].body : i \in DOMAIN ended.task.acc} = {100, 101}
    /\ {LastRecord.comments[i].body : i \in DOMAIN LastRecord.comments}
        \cup {LastRecord.review_comments[i].body :
                i \in DOMAIN LastRecord.review_comments}
        = {Whole(100), Cut}

\* the tasks a step adds to the nursery
Added == tasks' (-) tasks

\* C14 (fan-out per page): in the step in which a walker receives the
\* response to its pending request, the nursery gains exactly one task per
\* item of the page -- each of that walk, none of them run yet -- and loses
\* none; a page that failed adds no task; and after a non-empty page before
\* the tenth the next page is requested in that same step, with the new tasks
\* still pending.
C14_FanOutPerPage ==
    [][\A w \in Walks :
        LET N == Len(log[w])
        IN  (Pending(w) /\ log'[w][N].kind # "pending") =>
                LET answered == log'[w][N]
                IN  /\ tasks (-) tasks' = EmptyBag
                    /\ BagCardinality(Added) = answered.n
                    /\ spawned'[w] = spawned[w] + answered.n
                    /\ \A t \in BagToSet(Added) : t.walk = w /\ t.stage = "start"
                    /\ answered.kind # "ok" => answered.n = 0 /\ tasks' = tasks
                    /\ (answered.kind = "ok" /\ answered.n > 0 /\ N < 10) =>
                        /\ Len(log'[w]) = N + 1
                        /\ log'[w][N + 1] = [page |-> N + 1, kind |-> "pending", n |-> 0]
                        /\ walk'[w].status = "awaiting"]_vars

\* C14 witness: a walker has requested page 2 while the two tasks it started
\* for the items of page 1 have not run yet
C14_Witness ==
    \E w \in Walks :
        /\ Len(log[w]) = 2
        /\ log[w][1].kind = "ok" /\ log[w][1].n = 2
        /\ log[w][2].kind = "pending"
        /\ BagCardinality(tasks) = 2
        /\ \A t \in BagToSet(tasks) : t.walk = w /\ t.stage = "start"

\* the last detail fetch ended, in its commit or regular-comment pagination,
\* on a non-200 status
EndedOnStatus ==
    /\ ended # NoFetch
    /\ ended.task.stage \in {"commits", "comments"}
    /\ ended.response.kind = "status"

\* a record can be built for the task's item and fetched list: the item has
\* its title, and no fetched comment has a null user
Buildable(t) ==
    /\ t.item.missing # "title"
    /\ t.stage = "comments" => NoNullUser(t.acc)

StatusResponse == [kind |-> "status", entries |-> <<>>]
EmptyPage == [kind |-> "ok", entries |-> <<>>]

\* C15 (detail pagination failure rule): in the commit fetch and in the
\* regular-comment fetch a non-200 status on page 1 ends the task without a
\* record; a non-200 status on page k >= 2 ends the pagination only: the
\* task's step is the step an empty page k gives, and a record is appended
\* exactly when pages 1..k-1 hold a qualifying entry, built from those entries.
C15_DetailPaginationFailure ==
    /\ []((EndedOnStatus /\ ended.task.page = 1) => ~ended.recorded)
    /\ []((EndedOnStatus /\ ended.task.page >= 2 /\ Buildable(ended.task)) =>
            /\ ended.recorded <=> Kept(ended.task.acc) # <<>>
            /\ ended.recorded =>
                DatesOf(IF ended.task.stage = "commits" THEN LastRecord.commits
                        ELSE LastRecord.comments)
                    = DatesOf(Kept(ended.task.acc)))
    /\ [][\A t \in BagToSet(tasks) :
            (t.stage \in {"commits", "comments"} /\ t.page >= 2
                /\ DetailStep(t, StatusResponse))
            => DetailStep(t, EmptyPage)]_vars

\* C15 witness: a task got a non-200 status on page 2 and appended the record
\* of page 1's qualifying entry
C15_Witness ==
    /\ EndedOnStatus
    /\ ended.task.page = 2
    /\ ended.recorded
    /\ Len(Kept(ended.task.acc)) = 1

\* the last detail fetch ended when its review-comments request failed: it
\* raised, or it returned a non-200 status
ReviewFetchFailed ==
    /\ ended # NoFetch
    /\ ended.task.stage = "review"
    /\ ended.response.kind \in {"raise", "status"}

\* C16 (secondary-fetch tolerance): when the review-comments fetch of a
\* pull-request commentary task fails on any page, and the task holds at
\* least one qualifying regular comment (t.ucom, the list the comment filter
\* built) for an item that has its title, a record is appended all the same:
\* its comments are those qualifying comments and its review_comments is a
\* sequence, empty after a raised error.
C16_SecondaryFetchTolerance ==
    (ReviewFetchFailed /\ ended.task.ucom # <<>> /\ ended.task.item.missing # "title") =>
        /\ ended.recorded
        /\ ~LastRecord.is_author /\ ~LastRecord.is_issue
        /\ LastRecord.comments = ended.task.ucom
        /\ DOMAIN LastRecord.review_comments = 1 .. Len(LastRecord.review_comments)
        /\ ended.response.kind = "raise" => LastRecord.review_comments = <<>>

\* C16 witness: a review-comments request raised on page 2, and the task's
\* record holds its qualifying regular comment
C16_Witness ==
    /\ ReviewFetchFailed
    /\ ended.response.kind = "raise"
    /\ ended.task.page = 2
    /\ ended.recorded
    /\ Len(LastRecord.comments) = 1

\* C17 (search counter), as claimed: once the nursery has joined, the counter
\* equals the number of search requests the four walkers issued -- those
\* answered with a non-200 status and those that ended in a transport error
\* included -- and is at most 40.
C17_SearchCounter ==
    pc \in {"partitioned", "done"} =>
        /\ search_counter = SearchRequests
        /\ search_counter <= 40

\* the number of nursery.start_soon calls the four walkers have made
Spawned == SumOver(spawned, Walks)

\* C18 (append-only shared collection): every step leaves the elements of
\* all_results in place (the old list is a prefix of the new one); a step
\* that changes the list appends one record, is taken in the bulk phase and
\* ends one detail-fetch task; once the nursery has joined the list no longer
\* changes; and the list never holds more records than tasks were started.
\* (That no task reads the list is a fact of the source's text -- the tasks'
\* only use of all_results is the append of lines 99, 237, 272 and 308 -- and
\* of the model's: no guard of a walker's or task's step depends on it.)
C18_AppendOnly ==
    /\ [][/\ Len(all_results') >= Len(all_results)
          /\ SubSeq(all_results', 1, Len(all_results)) = all_results
          /\ all_results' # all_results =>
                /\ Len(all_results') = Len(all_results) + 1
                /\ pc = "bulk" /\ pc' = "bulk"
                /\ \E t \in BagToSet(tasks) : tasks' = tasks (-) SetToBag({t})
          /\ pc # "bulk" => all_results' = all_results]_vars
    /\ [](Len(all_results) + BagCardinality(tasks) <= Spawned)

\* C18 witness: main() has returned from a run in which two tasks were
\* started and each appended its record
C18_Witness ==
    /\ pc = "done"
    /\ Spawned = 2
    /\ Len(all_results) = 2

\* C19 (run to completion), as claimed: once the bulk phase has started the
\* nursery's scope is never cancelled and no walker is cancelled at its
\* pending request.
C19_RunToCompletion ==
    ~crashed /\ \A w \in Walks : walk[w].status # "cancelled"

\* the commentary records appended under key k, by their places in all_results
CommentaryAt(k) ==
    {i \in Indexes : ~all_results[i].data.is_author /\ all_results[i].key = k}

\* the one of them appended last
LastAppended(k) ==
    all_results[CHOOSE i \in CommentaryAt(k) : \A j \in CommentaryAt(k) : j <= i].data

CommentaryKeys == {all_results[i].key : i \in {j \in Indexes : ~all_results[j].data.is_author}}

\* C20 (no double counting across commentary walks): once all_results is
\* partitioned, the commented map has one entry per key of the commentary
\* records, equal to the record appended last under that key; and the
\* display record of its URL shows that one record's comment and
\* review-comment counts, never the sum over the records of the key.
C20_NoDoubleCounting ==
    pc \in {"partitioned", "done"} =>
        /\ DOMAIN comment_result.val = CommentaryKeys
        /\ \A k \in CommentaryKeys :
            /\ comment_result.val[k] = LastAppended(k)
            /\ pc = "done" =>
                /\ url_to_info.val[LastAppended(k).url].comments
                    = Len(LastAppended(k).comments)
                /\ url_to_info.val[LastAppended(k).url].review_comments
                    = Len(LastAppended(k).review_comments)

\* C20 witness: the commented-on-PR walk and the reviewed-PR walk returned the
\* same pull request, both tasks appended a record with a comment, and the
\* display record shows one comment
C20_Witness ==
    /\ pc = "done"
    /\ Len(all_results) = 2
    /\ {origin[1].walk, origin[2].walk} = {"fetch_pr_comments", "fetch_review_comments"}
    /\ all_results[1].key = all_results[2].key
    /\ Len(all_results[1].data.comments) = 1
    /\ Len(all_results[2].data.comments) = 1
    /\ url_to_info.val[all_results[2].data.url].comments = 1

\* the bulk phase has started: a walker has issued a search request
BulkStarted == \E w \in Walks : log[w] # <<>>

\* pre-flight is over: main() has exited or gone past the quota response
PreflightOver == pc \notin {"start", "auth", "quota"}

CredentialsPresent == creds.token /\ creds.username

IdentityOK == auth.kind = "response" /\ auth.status = 200

QuotaReportedLow ==
    rate.kind = "response" /\ rate.status = 200 /\ rate.search_remaining < 15

\* C21 (bulk-phase admission), as claimed: the bulk phase starts if and only
\* if both credentials are present, the identity request returned 200 without
\* a transport error, and the quota endpoint did not return 200 with a
\* remaining search quota below 15.
C21_AdmissionAsClaimed ==
    PreflightOver =>
        (BulkStarted <=> (CredentialsPresent /\ IdentityOK /\ ~QuotaReportedLow))

\* C21 (bulk-phase admission), amended: the bulk phase starts if and only if
\* both credentials are present, the identity request returned 200 without a
\* transport error, and the quota request came back with a response -- no
\* transport error -- that is a non-200 status, which skips the quota check,
\* or a 200 whose body reads and reports a remaining search quota of 15 or
\* more; and no search request is issued before pre-flight is over.
C21_BulkAdmission ==
    /\ ~PreflightOver => ~BulkStarted
    /\ PreflightOver =>
        (BulkStarted <=>
            /\ CredentialsPresent
            /\ IdentityOK
            /\ rate.kind = "response"
            /\ (rate.status # 200 \/ rate.search_remaining >= 15))

\* C21 witness: the quota endpoint answered with a non-200 status and the
\* walkers have issued their first search requests
C21_Witness ==
    /\ rate.kind = "response" /\ rate.status # 200
    /\ \A w \in Walks : log[w] # <<>>

====
